---- MODULE Spec2Model ----
(***************************************************************************)
(* A model of cycling_dynamics: the CriticalPower class                     *)
(* (src/src/cycling_dynamics/critical_power.py), one object with its        *)
(* constructor and its methods, and match_segments                          *)
(* (src/src/cycling_dynamics/segments.py), each as one atomic action.       *)
(*                                                                          *)
(* Numbers.  pandas works on float64.  The model computes with exact        *)
(* rationals extended by NaN, +inf and -inf, so it shows what the           *)
(* arithmetic of the code means, not its rounding error.  Power samples     *)
(* and profile powers are integers (watts), as a FIT file records them.     *)
(***************************************************************************)
EXTENDS Integers, Sequences, FiniteSets, TLC

(***************************************************************************)
(* Bounds of the model.                                                     *)
(***************************************************************************)
\* longest activity, in samples
MaxLen == 3
\* largest power sample of an activity, in watts
MaxPower == 2
\* longest duration of a user profile, in seconds
MaxDuration == 36
\* largest power of a user profile, in watts
MaxProfilePower == 3
\* largest ftp passed to ramp_test_activity
MaxFtp == 2
\* longest workout passed to make_zwo_from_ramp, in segments
MaxSegments == 3
\* longest track, in rows
MaxRows == 3
\* largest longitude of a track point, in steps from 0
MaxLon == 1
\* timestamp of the first row of a track, in seconds
FirstTimestamp == 10

(***************************************************************************)
(* Optional values: None, or a one-element tuple holding the value.         *)
(***************************************************************************)
None == <<>>
Some(v) == <<v>>
Val(o) == o[1]

Min(a, b) == IF a <= b THEN a ELSE b
Max(a, b) == IF a >= b THEN a ELSE b
Abs(x) == IF x < 0 THEN -x ELSE x
Sign(x) == IF x > 0 THEN 1 ELSE IF x < 0 THEN -1 ELSE 0

RECURSIVE GCD(_, _)
GCD(a, b) == IF b = 0 THEN a ELSE GCD(b, a % b)

(***************************************************************************)
(* float64 as an extended rational num/den in lowest terms, den >= 0.       *)
(* den = 0 holds the values that are no number: 0/0 is NaN, 1/0 is +inf,    *)
(* -1/0 is -inf.                                                            *)
(***************************************************************************)
Float(n, d) ==
    IF d = 0 THEN [num |-> Sign(n), den |-> 0]
    ELSE LET s == IF d < 0 THEN -1 ELSE 1
             g == GCD(Abs(n), Abs(d))
         IN  [num |-> (s * n) \div g, den |-> (s * d) \div g]

F(n) == [num |-> n, den |-> 1]
NaN == [num |-> 0, den |-> 0]
Inf == [num |-> 1, den |-> 0]
isnull(x) == x = NaN
IsFinite(x) == x.den > 0

FNeg(a) == [num |-> -a.num, den |-> a.den]
FAdd(a, b) ==
    IF isnull(a) \/ isnull(b) THEN NaN
    ELSE IF a.den = 0 /\ b.den = 0 THEN (IF a.num = b.num THEN a ELSE NaN)
    ELSE IF a.den = 0 THEN a
    ELSE IF b.den = 0 THEN b
    ELSE Float(a.num * b.den + b.num * a.den, a.den * b.den)
FSub(a, b) == FAdd(a, FNeg(b))
FMul(a, b) ==
    IF isnull(a) \/ isnull(b) THEN NaN
    ELSE Float(a.num * b.num, a.den * b.den)
\* IEEE division: x/0 is +-inf, 0/0 is NaN; no error is raised
FDiv(a, b) ==
    IF isnull(a) \/ isnull(b) THEN NaN
    ELSE LET s == IF b.num < 0 THEN -1 ELSE 1
         IN  Float(s * a.num * b.den, s * a.den * b.num)
\* comparisons: false when either side is NaN
FLe(a, b) ==
    /\ ~isnull(a)
    /\ ~isnull(b)
    /\ IF a.den = 0 /\ b.den = 0 THEN a.num <= b.num
       ELSE a.num * b.den <= b.num * a.den
FLt(a, b) == FLe(a, b) /\ a # b

(***************************************************************************)
(* pandas Series reductions; all of them skip NaN (skipna=True).            *)
(***************************************************************************)
RECURSIVE SumFrom(_, _)
\* sum of the non-NaN values of x from position i on; 0 when there are none
SumFrom(x, i) ==
    IF i > Len(x) THEN F(0)
    ELSE IF isnull(x[i]) THEN SumFrom(x, i + 1)
    ELSE FAdd(x[i], SumFrom(x, i + 1))
sum(x) == SumFrom(x, 1)
count(x) == Cardinality({i \in 1..Len(x) : ~isnull(x[i])})
mean(x) == IF count(x) = 0 THEN NaN ELSE FDiv(sum(x), F(count(x)))
NotNull(x) == {i \in 1..Len(x) : ~isnull(x[i])}
max(x) ==
    IF NotNull(x) = {} THEN NaN
    ELSE x[CHOOSE i \in NotNull(x) : \A j \in NotNull(x) : FLe(x[j], x[i])]
min(x) ==
    IF NotNull(x) = {} THEN NaN
    ELSE x[CHOOSE i \in NotNull(x) : \A j \in NotNull(x) : FLe(x[i], x[j])]
\* Series.std() is the sample standard deviation (ddof=1): NaN below two
\* values.  The model keeps its square, the sample variance, which is a
\* rational and determines it.
std(x) ==
    IF count(x) < 2 THEN NaN
    ELSE LET m == mean(x)
             sq == [i \in 1..Len(x) |->
                      IF isnull(x[i]) THEN NaN
                      ELSE FMul(FSub(x[i], m), FSub(x[i], m))]
         IN  FDiv(sum(sq), F(count(x) - 1))
\* the label of the last occurrence of the maximum
idxmax_last(x) ==
    (CHOOSE i \in NotNull(x) :
        /\ \A j \in NotNull(x) : FLe(x[j], x[i])
        /\ \A j \in NotNull(x) : j > i => x[j] # x[i]) - 1
\* the label (0-based, a RangeIndex) of the first occurrence of the maximum
idxmax(x) ==
    (CHOOSE i \in NotNull(x) :
        /\ \A j \in NotNull(x) : FLe(x[j], x[i])
        /\ \A j \in NotNull(x) : j < i => x[j] # x[i]) - 1
\* Series.loc[a:b] on labels 0..Len-1: both ends included, missing labels
\* outside the index ignored
loc(x, a, b) == SubSeq(x, Max(a, 0) + 1, Min(b, Len(x) - 1) + 1)
\* Series.rolling(window, min_periods).mean(): at each label the mean of the
\* non-NaN values among the last `window` samples, NaN when fewer than
\* min_periods of them are there
rolling(x, window, min_periods) ==
    [i \in 1..Len(x) |->
        LET w == SubSeq(x, Max(1, i - window + 1), i)
        IN  IF count(w) >= min_periods THEN mean(w) ELSE NaN]

(***************************************************************************)
(* The state: the arguments of the constructor, the attributes of the       *)
(* CriticalPower object, and the last call made on it.                      *)
(*   activity            None, or the activity table: power is the column   *)
(*                       "power" and mean the columns "{s}_mean", keyed by s *)
(*   cp_user             None, or the profile, a function duration -> watts *)
(*   ramp_args           the arguments the caller passes to                 *)
(*                       ramp_test_activity                                 *)
(*   cp_points           dict duration -> CPPoint                           *)
(*   cp_df               the rows of the DataFrame, in order                *)
(*   cp_defined_df       None, or [seconds |-> column, power |-> column]    *)
(*   cp_defined_dict     None, or the function seconds -> power             *)
(*   pc                  "new" before __init__, then "ready" or "failed"    *)
(*   last                the last call: its name, arguments and the error   *)
(*                       it raised ("None" when it returned)                *)
(*   cp_runs             how many calculate_cp calls in a row end with the   *)
(*                       last call, counted up to 2                         *)
(***************************************************************************)
VARIABLES activity, cp_user, max_window, ramp_args, cp_points, cp_df, cp_defined_df,
          cp_defined_dict, ramp_test_df, ramp_test_wko, activity_percent_cp,
          df_rolling, pc, last, cp_runs, tracks, match_args, match_result,
          zwo_args, zwo_result

\* the variables of segments.match_segments: its list of tracks (which it
\* changes in place), the arguments its caller passes, and the outcome of
\* its last call
segment_vars == <<tracks, match_args, match_result>>
\* the variables of make_zwo_from_ramp: the arguments its caller passes,
\* and the document its last call returned and the file that call wrote
zwo_vars == <<zwo_args, zwo_result>>

vars == <<activity, cp_user, max_window, ramp_args, cp_points, cp_df, cp_defined_df,
          cp_defined_dict, ramp_test_df, ramp_test_wko, activity_percent_cp,
          df_rolling, pc, last, cp_runs, tracks, match_args, match_result,
          zwo_args, zwo_result>>

NoArgs == <<>>
Call(op, args, raised) == [op |-> op, args |-> args, raised |-> raised]

\* range(a, b) as a sequence
range(a, b) == [i \in 1..(b - a) |-> a + i - 1]
RECURSIVE sorted(_)
\* the elements of a finite set of integers, ascending
sorted(S) ==
    IF S = {} THEN <<>>
    ELSE LET m == CHOOSE x \in S : \A y \in S : x <= y
         IN  <<m>> \o sorted(S \ {m})

(***************************************************************************)
(* _interpolate_curve                                                       *)
(***************************************************************************)
\* DataFrame.reindex(new_index) of the frame indexed by "seconds": the row
\* of each label of new_index, NaN where the profile has no such label
reindex(profile, new_index) ==
    [i \in 1..Len(new_index) |->
        IF new_index[i] \in DOMAIN profile THEN F(profile[new_index[i]])
        ELSE NaN]
\* Series.interpolate(method="pad"): every NaN takes the last valid value
\* before it
interpolate_pad(x) ==
    [i \in 1..Len(x) |->
        IF ~isnull(x[i]) THEN x[i]
        ELSE LET before == {j \in NotNull(x) : j < i}
             IN  IF before = {} THEN NaN
                 ELSE x[CHOOSE j \in before : \A k \in before : k <= j]]
\* Series.interpolate(method="linear"): NaN runs are filled on a straight
\* line between the valid neighbours, by position; NaN after the last valid
\* value take that value, NaN before the first valid value stay NaN
interpolate(x) ==
    [i \in 1..Len(x) |->
        IF ~isnull(x[i]) THEN x[i]
        ELSE LET before == {j \in NotNull(x) : j < i}
                 after == {j \in NotNull(x) : j > i}
             IN  IF before = {} THEN NaN
                 ELSE LET lo == CHOOSE j \in before : \A k \in before : k <= j
                      IN  IF after = {} THEN x[lo]
                          ELSE LET hi == CHOOSE j \in after :
                                            \A k \in after : j <= k
                               IN  FAdd(x[lo],
                                        FDiv(FMul(FSub(x[hi], x[lo]), F(i - lo)),
                                             F(hi - lo)))]
\* the profile passed in is the frame of its items; the result has the
\* columns seconds and power and a fresh RangeIndex
_interpolate_curve(profile) ==
    LET max_time == CHOOSE k \in DOMAIN profile : \A j \in DOMAIN profile : j <= k
        new_index == range(1, max_time + 1)
    IN  [seconds |-> new_index,
         power |-> interpolate(reindex(profile, new_index))]
\* DataFrame.set_index("seconds")["power"].to_dict()
to_dict(df) ==
    [k \in {df.seconds[i] : i \in 1..Len(df.seconds)} |->
        df.power[CHOOSE i \in 1..Len(df.seconds) : df.seconds[i] = k]]

(***************************************************************************)
(* CriticalPower.__init__ and _convert_cp_defined.  cp_user[1] of a profile *)
(* without duration 1 raises KeyError, which the method does not catch; the *)
(* assertion is about the power at duration 1 alone.                        *)
(***************************************************************************)
_convert_cp_defined_raises(profile) ==
    IF 1 \notin DOMAIN profile THEN "KeyError"
    ELSE IF ~(profile[1] >= 0) THEN "AssertionError"
    ELSE "None"

__init__ ==
    /\ pc = "new"
    /\ LET raised == IF cp_user = None THEN "None"
                     ELSE _convert_cp_defined_raises(Val(cp_user))
           converted == cp_user # None /\ raised = "None"
       IN  /\ pc' = IF raised = "None" THEN "ready" ELSE "failed"
           /\ cp_defined_df' =
                 IF converted THEN Some(_interpolate_curve(Val(cp_user)))
                 ELSE cp_defined_df
           /\ cp_defined_dict' =
                 IF converted THEN Some(to_dict(_interpolate_curve(Val(cp_user))))
                 ELSE cp_defined_dict
           /\ last' = Call("__init__", NoArgs, raised)
    /\ cp_runs' = 0
    /\ UNCHANGED <<activity, cp_user, max_window, ramp_args, cp_points, cp_df,
                   ramp_test_df, ramp_test_wko, activity_percent_cp, df_rolling>>
    /\ UNCHANGED segment_vars
    /\ UNCHANGED zwo_vars

(***************************************************************************)
(* CriticalPower.calculate_cp                                               *)
(***************************************************************************)
\* s_mean with min_periods=1, as get_power_roll_avg_df rolls
s_mean_min_periods_1(power, s) == rolling(power, s, 1)
\* activity["power"].rolling(window=s).mean(): min_periods defaults to the
\* window, so the value is NaN unless all s samples are there and not NaN
s_mean(power, s) == rolling(power, s, s)
\* the durations for which some rolling mean is defined
not_all_null(power, mw) ==
    {s \in 1..mw : \E i \in 1..Len(power) : ~isnull(s_mean(power, s)[i])}
\* window_at with the slice started one label early: s + 1 rows
window_at_one_early(power, idx, s) == loc(power, idx - s, idx)
\* activity.loc[idx - s + 1 : idx].copy().reset_index(drop=True)
window_at(power, idx, s) == loc(power, idx - s + 1, idx)
\* window["power"].loc[s // 2 : s].mean() - window["power"].loc[: s // 2].mean():
\* .loc includes both ends, so the first slice is labels s//2..s-1 and the
\* second is labels 0..s//2
slope_of(w, s) == FSub(mean(loc(w, s \div 2, s)), mean(loc(w, 0, s \div 2)))
\* the CPPoint of duration s.  The modelled activity has no heart_rate
\* column, so the heart-rate fields take the values of the except branch,
\* and no extra columns.
CPPoint(power, s) ==
    LET idx == idxmax(s_mean(power, s))
        window == window_at(power, idx, s)
    IN  [seconds |-> s, idx |-> idx, window |-> window,
         cp |-> mean(window), std |-> std(window),
         max |-> max(window), min |-> min(window),
         slope |-> slope_of(window, s),
         extra_cols |-> <<>>, extra_data |-> <<>>, intensity |-> F(0),
         chr |-> F(0), chr_std |-> F(0), chr_max |-> F(0), chr_min |-> F(0)]
\* self.cp_points[s] = cpp for each computed s: entries of other durations
\* stay as they are
cp_points_after(points, power, mw) ==
    [s \in DOMAIN points \cup not_all_null(power, mw) |->
        IF s \in not_all_null(power, mw) THEN CPPoint(power, s) ELSE points[s]]
df_data_row(cpp) ==
    [seconds |-> cpp.seconds, idx |-> cpp.idx, cp |-> cpp.cp, std |-> cpp.std,
     max |-> cpp.max, min |-> cpp.min, slope |-> cpp.slope]
\* df_data, the rows appended during this call, ascending in s
df_data(power, mw) ==
    LET ss == sorted(not_all_null(power, mw))
    IN  [i \in 1..Len(ss) |-> df_data_row(CPPoint(power, ss[i]))]
\* cp_df_after with the rows appended to the frame of the call before
cp_df_appended(old, rows) == old \o rows
\* self.cp_df = pd.DataFrame(df_data)
cp_df_after(old, rows) == rows
\* self.activity[f"{s}_mean"] = ...: the column is added, or set anew
assign_mean(df, s) ==
    [df EXCEPT !.mean = [k \in DOMAIN df.mean \cup {s} |->
                            IF k = s THEN s_mean(df.power, s) ELSE df.mean[k]]]
\* the table without the column "{s}_mean"
without_mean(df, s) ==
    [df EXCEPT !.mean = IF DOMAIN df.mean \subseteq {s} THEN <<>>
                        ELSE [k \in DOMAIN df.mean \ {s} |-> df.mean[k]]]
\* drop_mean moved into the branch of line 112: the column is dropped only
\* when the duration has a CPPoint
drop_mean_of_point(df, s) ==
    IF \E i \in 1..Len(df.power) : ~isnull(df.mean[s][i])
    THEN without_mean(df, s) ELSE df
\* self.activity.drop(columns=f"{s}_mean", inplace=True), for every s
drop_mean(df, s) == without_mean(df, s)
RECURSIVE activity_from(_, _, _)
\* the activity table after the turns s..mw of the loop
activity_from(df, s, mw) ==
    IF s > mw THEN df
    ELSE activity_from(drop_mean(assign_mean(df, s), s), s + 1, mw)
\* the activity table after the loop of calculate_cp
activity_after(df, mw) == activity_from(df, 1, mw)

calculate_cp ==
    /\ pc = "ready"
    /\ IF activity = None
       THEN /\ last' = Call("calculate_cp", NoArgs, "TypeError")
            /\ cp_runs' = 0
            /\ UNCHANGED <<activity, cp_points, cp_df>>
       ELSE /\ last' = Call("calculate_cp", NoArgs, "None")
            /\ cp_runs' = Min(cp_runs + 1, 2)
            /\ activity' = Some(activity_after(Val(activity), max_window))
            /\ cp_points' =
                  cp_points_after(cp_points, Val(activity).power, max_window)
            /\ cp_df' = cp_df_after(cp_df, df_data(Val(activity).power, max_window))
    /\ UNCHANGED <<cp_user, max_window, ramp_args, cp_defined_df,
                   cp_defined_dict,
                   ramp_test_df, ramp_test_wko, activity_percent_cp, df_rolling,
                   pc>>
    /\ UNCHANGED segment_vars
    /\ UNCHANGED zwo_vars

(***************************************************************************)
(* CriticalPower.get_power_roll_avg_df and cp_intensity                     *)
(***************************************************************************)
\* the rolling columns power_{n}sec, keyed by n: min_periods=1, so a value
\* is the mean of the samples there are; dropna drops the columns that are
\* NaN throughout
get_power_roll_avg_df(power, window) ==
    LET rolling_power == [n \in 1..Min(window, Len(power)) |-> rolling(power, n, 1)]
        kept == {n \in DOMAIN rolling_power : NotNull(rolling_power[n]) # {}}
    IN  [n \in kept |-> rolling_power[n]]
\* the curve the rolling means are divided by, as a function of the interval
curve_of(points, dict, cp_activity) ==
    IF cp_activity THEN [d \in DOMAIN points |-> points[d].cp]
    ELSE IF dict = None THEN <<>>
    ELSE Val(dict)
\* the error of lines 202-210, "None" when they raise none: pd.concat of no
\* columns raises ValueError; subscripting cp_defined_dict when it is None
\* raises TypeError; an interval the curve lacks raises KeyError.  roll is
\* the frame of get_power_roll_avg_df.
cp_intensity_raises(curve, dict, power, roll, cp_activity, length) ==
    IF Min(length, Len(power)) < 1 THEN "ValueError"
    ELSE IF DOMAIN roll = {} THEN "None"
    ELSE IF ~cp_activity /\ dict = None THEN "TypeError"
    ELSE IF \E n \in DOMAIN roll : n \notin DOMAIN curve THEN "KeyError"
    ELSE "None"
\* percent_cp_{n}sec, keyed by n: the rolling column divided by the curve
percent_cp(curve, roll) ==
    [n \in DOMAIN roll |-> [i \in 1..Len(roll[n]) |-> FDiv(roll[n][i], curve[n])]]
\* percent_total_cp: the row sums of the percent columns (NaN skipped, 0 for
\* a row of none) divided by length
percent_total_cp(pct, rows, length) ==
    LET ns == sorted(DOMAIN pct)
    IN  [i \in 1..rows |->
            FDiv(sum([k \in 1..Len(ns) |-> pct[ns[k]][i]]), F(length))]

cp_intensity(cp_activity, length) ==
    /\ pc = "ready"
    /\ LET calc == cp_activity /\ DOMAIN cp_points = {} /\ activity # None
           power == Val(activity).power
           points == IF calc THEN cp_points_after(cp_points, power, max_window)
                     ELSE cp_points
           roll == get_power_roll_avg_df(power, length)
           curve == curve_of(points, cp_defined_dict, cp_activity)
           raised == IF activity = None THEN "TypeError"
                     ELSE cp_intensity_raises(curve, cp_defined_dict, power, roll,
                                              cp_activity, length)
           pct == percent_cp(curve, roll)
           total == percent_total_cp(pct, Len(power), length)
       IN  /\ activity' = IF calc THEN Some(activity_after(Val(activity), max_window))
                        ELSE activity
           /\ cp_points' = points
           /\ cp_df' = IF calc THEN cp_df_after(cp_df, df_data(power, max_window))
                       ELSE cp_df
           /\ last' = Call("cp_intensity",
                           [cp_activity |-> cp_activity, length |-> length],
                           raised)
           /\ activity_percent_cp' =
                 IF raised = "None" THEN Some(mean(total)) ELSE activity_percent_cp
           /\ df_rolling' =
                 IF raised = "None"
                 THEN Some([percent_cp |-> pct, percent_total_cp |-> total])
                 ELSE df_rolling
    /\ cp_runs' = 0
    /\ UNCHANGED <<cp_user, max_window, ramp_args, cp_defined_df,
                   cp_defined_dict,
                   ramp_test_df, ramp_test_wko, pc>>
    /\ UNCHANGED segment_vars
    /\ UNCHANGED zwo_vars

(***************************************************************************)
(* _calculate_ramp_power and CriticalPower.ramp_test_activity               *)
(***************************************************************************)
\* numpy.float64.clip(max=0)
clip_max_0(x) == IF isnull(x) THEN NaN ELSE IF FLe(F(0), x) THEN F(0) ELSE x
\* numpy.float64.clip(min=0)
clip_min_0(x) == IF isnull(x) THEN NaN ELSE IF FLe(x, F(0)) THEN F(0) ELSE x
RECURSIVE ramp_power_from(_, _, _, _)
\* the loop of _calculate_ramp_power from the row after those of acc on;
\* acc is ramp_power of the rows done, total is their sum (NaN skipped),
\* which is df.loc[: idx - 1]["ramp_power"].sum()
ramp_power_from(power, seconds, acc, total) ==
    IF Len(acc) = Len(power) THEN acc
    ELSE LET i == Len(acc) + 1
             v == IF i = 1 THEN power[1]
                  ELSE FSub(FMul(power[i], F(seconds[i])), clip_min_0(total))
         IN  ramp_power_from(power, seconds, Append(acc, v),
                             IF isnull(v) THEN total ELSE FAdd(total, v))
_calculate_ramp_power(df) == ramp_power_from(df.power, df.seconds, <<>>, F(0))

\* the rows after which seconds are grouped, and the offset of the bins of
\* the grouped rows
ramp_rows == 30
bin_offset == 30
\* the bin of the row labelled name (labels start at 0, so name = seconds - 1)
bin_of(name, segment_time) ==
    IF name > ramp_rows THEN name \div segment_time + bin_offset ELSE name
\* Series.round(0): to the nearest whole number, halves to the even one
round(x) ==
    IF ~IsFinite(x) THEN x
    ELSE LET q == (2 * x.num + x.den) \div (2 * x.den)
         IN  IF (2 * x.num + x.den) % (2 * x.den) = 0 /\ q % 2 = 1
             THEN F(q - 1) ELSE F(q)
RECURSIVE groups_from(_, _, _)
\* df.groupby("bins"): the positions of the rows of every bin, in row order,
\* from position i on; g holds the groups of the rows before i
groups_from(bins, i, g) ==
    IF i > Len(bins) THEN g
    ELSE groups_from(bins, i + 1,
                     IF bins[i] \in DOMAIN g
                     THEN [g EXCEPT ![bins[i]] = Append(@, i)]
                     ELSE g @@ (bins[i] :> <<i>>))
groupby(bins) == groups_from(bins, 1, <<>>)
\* groupby("bins")[col].transform("mean"): at every row the mean of col over
\* the rows of its bin
transform_mean(x, bins, groups) ==
    LET m == [b \in DOMAIN groups |->
                 mean([k \in 1..Len(groups[b]) |-> x[groups[b][k]]])]
    IN  [i \in 1..Len(x) |-> m[bins[i]]]
\* bin_time with every grouped bin taken to hold segment_time seconds
transform_count_nominal(bins, groups, segment_time) ==
    [i \in 1..Len(bins) |-> IF bins[i] > ramp_rows THEN segment_time ELSE 1]
\* groupby("bins")["seconds"].transform("count"): at every row the number
\* of rows of its bin
transform_count(bins, groups, segment_time) ==
    [i \in 1..Len(bins) |-> Len(groups[bins[i]])]
RECURSIVE expanding_mean_from(_, _, _)
\* Series.expanding().mean() from the row after those of acc on
expanding_mean_from(x, acc, total) ==
    IF Len(acc) = Len(x) THEN acc
    ELSE LET t == FAdd(total, x[Len(acc) + 1])
         IN  expanding_mean_from(x, Append(acc, FDiv(t, F(Len(acc) + 1))), t)
\* the frame df of ramp_test_activity, by columns
ramp_df(cp_df_defined, segment_time, test_length, ftp) ==
    LET n == Cardinality({i \in 1..Len(cp_df_defined.seconds) :
                             cp_df_defined.seconds[i] <= test_length})
        df == [seconds |-> SubSeq(cp_df_defined.seconds, 1, n),
               power |-> SubSeq(cp_df_defined.power, 1, n)]
        ramp_power == _calculate_ramp_power(df)
        bins == [i \in 1..n |-> bin_of(i - 1, segment_time)]
        groups == groupby(bins)
        bin_mean == transform_mean(ramp_power, bins, groups)
        bin_power == [i \in 1..n |-> round(bin_mean[i])]
    IN  [seconds |-> df.seconds,
         power |-> df.power,
         ramp_power |-> ramp_power,
         bins |-> bins,
         bin_power |-> bin_power,
         bin_time |-> transform_count(bins, groups, segment_time),
         power_per_ftp |-> [i \in 1..n |-> FDiv(df.power[i], F(ftp))],
         ramp_power_per_ftp |-> [i \in 1..n |-> FDiv(ramp_power[i], F(ftp))],
         bin_power_per_ftp |-> [i \in 1..n |-> FDiv(bin_power[i], F(ftp))],
         wko_critical_power |-> expanding_mean_from(bin_power, <<>>, F(0))]
\* sorted_descending with the bins left in ascending order
sorted_ascending(S) == sorted(S)
RECURSIVE sorted_descending(_)
\* sort_values("bins", ascending=False): the bins from the largest
sorted_descending(S) ==
    IF S = {} THEN <<>>
    ELSE LET m == CHOOSE x \in S : \A y \in S : y <= x
         IN  <<m>> \o sorted_descending(S \ {m})
\* df_wko: the first row of every bin (drop_duplicates keeps the first), by
\* descending bin, numbered from 1; power_ftp is the column "power%ftp"
ramp_wko(df) ==
    LET groups == groupby(df.bins)
        bs == sorted_descending(DOMAIN groups)
    IN  [k \in 1..Len(bs) |->
            LET i == groups[bs[k]][1]
            IN  [segment |-> k, duration |-> df.bin_time[i],
                 power |-> df.bin_power[i], power_ftp |-> df.bin_power_per_ftp[i]]]
\* the error of lines 228-231, "None" when they raise none: without a
\* profile cp_defined_dict is None and .keys() raises AttributeError; a
\* profile that ends before test_length raises ValueError.  Nothing checks
\* ftp or segment_time.
ramp_test_raises(dict, test_length) ==
    IF dict = None THEN "AttributeError"
    ELSE IF ~(\E k \in DOMAIN Val(dict) : k >= test_length) THEN "ValueError"
    ELSE "None"

ramp_test_activity(segment_time, test_length, ftp) ==
    /\ pc = "ready"
    /\ LET raised == ramp_test_raises(cp_defined_dict, test_length)
       IN  /\ last' = Call("ramp_test_activity",
                           [segment_time |-> segment_time,
                            test_length |-> test_length, ftp |-> ftp],
                           raised)
           /\ ramp_test_df' =
                 IF raised = "None"
                 THEN Some(ramp_df(Val(cp_defined_df), segment_time, test_length, ftp))
                 ELSE ramp_test_df
           /\ ramp_test_wko' =
                 IF raised = "None" THEN Some(ramp_wko(Val(ramp_test_df')))
                 ELSE ramp_test_wko
    /\ cp_runs' = 0
    /\ UNCHANGED <<activity, cp_user, max_window, ramp_args, cp_points, cp_df,
                   cp_defined_df, cp_defined_dict, activity_percent_cp,
                   df_rolling, pc>>
    /\ UNCHANGED segment_vars
    /\ UNCHANGED zwo_vars

(***************************************************************************)
(* CriticalPower.make_zwo_from_ramp.  The document is held line by line;    *)
(* every line ends with a newline.  A line is its text and, where the text  *)
(* has a {}, the values formatted into it, in order.                        *)
(***************************************************************************)
Line(text, values) == [text |-> text, values |-> values]
\* `if ftp:` taken as `if ftp is not None:`
is_not_none(ftp) == ftp # None
\* `if ftp:` is false for None and for 0
truthy(ftp) == ftp # None /\ Val(ftp) # 0
\* the lines of the SteadyState elements, one per record of
\* workout.to_dict(orient="records"), in row order
steady_states(workout) ==
    [k \in 1..Len(workout) |->
        Line("      <SteadyState Duration=\"{}\" Power=\"{}\"/>",
             <<workout[k].duration, workout[k].power_ftp>>)]
xml_of(workout, name, ftp) ==
    <<Line("<?xml version='1.0' encoding='UTF-8'?>", <<>>),
      Line("<workout_file>", <<>>),
      Line("  <author>Vincent Davis</author>", <<>>),
      Line("  <name>Most Painful Ramp Test {}</name>", <<name>>),
      Line("  <description>A ramp test based on power profile</description>", <<>>),
      Line("  <sportType>bike</sportType>", <<>>),
      Line("  <tags></tags>", <<>>)>>
    \o (IF truthy(ftp)
        THEN <<Line("  <ftpOverride>{}</ftpOverride>", <<Val(ftp)>>)>>
        ELSE <<>>)
    \o <<Line("  <workout>", <<>>)>>
    \o steady_states(workout)
    \o <<Line("    </workout>", <<>>),
         Line("</workout_file>", <<>>)>>

make_zwo_from_ramp(workout, filename, name, ftp) ==
    /\ pc = "ready"
    /\ LET xml == xml_of(workout, name, ftp)
       IN  zwo_result' =
              [returned |-> Some(xml),
               file |-> IF filename # None /\ Val(filename) # ""
                        THEN Some([filename |-> Val(filename), content |-> xml])
                        ELSE zwo_result.file]
    /\ last' = Call("make_zwo_from_ramp",
                    [filename |-> filename, name |-> name, ftp |-> ftp], "None")
    /\ cp_runs' = 0
    /\ UNCHANGED <<activity, cp_user, max_window, ramp_args, cp_points, cp_df,
                   cp_defined_df, cp_defined_dict, ramp_test_df, ramp_test_wko,
                   activity_percent_cp, df_rolling, pc, zwo_args>>
    /\ UNCHANGED segment_vars

(***************************************************************************)
(* segments.match_segments.  A track is a frame with a RangeIndex, held by  *)
(* columns: `columns` is the set of the names of its columns and the other  *)
(* fields are the columns, <<>> for one the frame does not have.  Distances *)
(* and timestamps are whole numbers.  Positions lie on the equator, where   *)
(* haversine_distance is RADIUS * radians(|lon2 - lon1|): the model counts  *)
(* longitude in steps and distance to a point in the metres of one step.    *)
(***************************************************************************)
LAT_COL == "position_lat"
LON_COL == "position_long"
DIST_COL == "distance"
TIME_COL == "timestamp"
required_columns == {LAT_COL, LON_COL, DIST_COL, TIME_COL}

\* calc.haversine_distance between two points of latitude 0
haversine_distance(lat1, lon1, lat2, lon2) == Abs(lon2 - lon1)
\* idxmin taking the label of the last smallest value
idxmin_last(x) ==
    (CHOOSE i \in 1..Len(x) :
        /\ \A j \in 1..Len(x) : x[i] <= x[j]
        /\ \A j \in (i + 1)..Len(x) : x[j] > x[i]) - 1
\* Series.idxmin(): the label (from 0) of the first smallest value
idxmin(x) ==
    (CHOOSE i \in 1..Len(x) :
        /\ \A j \in 1..Len(x) : x[i] <= x[j]
        /\ \A j \in 1..(i - 1) : x[j] > x[i]) - 1
\* the index of the last track that lacks a required column, -1 when none
\* does
missing_track_last(ts) ==
    IF \E i \in 1..Len(ts) : ~(required_columns \subseteq ts[i].columns)
    THEN (CHOOSE i \in 1..Len(ts) :
             /\ ~(required_columns \subseteq ts[i].columns)
             /\ \A j \in (i + 1)..Len(ts) : required_columns \subseteq ts[j].columns) - 1
    ELSE -1
\* the error of lines 25-31, "None" when they raise none, and the track
\* index its message names (-1 when it names none)
missing_track(ts) ==
    IF \E i \in 1..Len(ts) : ~(required_columns \subseteq ts[i].columns)
    THEN (CHOOSE i \in 1..Len(ts) :
             /\ ~(required_columns \subseteq ts[i].columns)
             /\ \A j \in 1..(i - 1) : required_columns \subseteq ts[j].columns) - 1
    ELSE -1
match_segments_raises(ts) ==
    IF ts = <<>> THEN "ValueError"
    ELSE IF missing_track(ts) # -1 THEN "ValueError"
    ELSE "None"
\* tracks[0]["distance"].sub(d).abs().idxmin()
closest_idx(track, d) ==
    idxmin([i \in 1..Len(track.distance) |-> Abs(track.distance[i] - d)])
\* track.iloc[idx][["position_lat", "position_long", "distance"]]
point_at(track, idx) ==
    [position_lat |-> track.position_lat[idx + 1],
     position_long |-> track.position_long[idx + 1],
     distance |-> track.distance[idx + 1]]
\* the column of the distances from the rows of a track to a point
distance_to(track, point) ==
    [i \in 1..Len(track.distance) |->
        haversine_distance(point.position_lat, point.position_long,
                           track.position_lat[i], track.position_long[i])]
\* a comparison track after lines 55-69: the columns distance_to_start and
\* distance_to_end are set on the frame the caller passed
with_distances(track, start_point, end_point) ==
    [track EXCEPT !.columns = @ \cup {"distance_to_start", "distance_to_end"},
                  !.distance_to_start = distance_to(track, start_point),
                  !.distance_to_end = distance_to(track, end_point)]
\* the smallest value of a column, as Series.min() of whole numbers
int_min(x) == CHOOSE v \in {x[i] : i \in 1..Len(x)} : \A j \in 1..Len(x) : v <= x[j]
\* timestamp.sub(timestamp.min()).dt.total_seconds(); an empty column stays
\* empty
seconds_of(timestamp) ==
    [i \in 1..Len(timestamp) |-> timestamp[i] - int_min(timestamp)]
\* track.loc[a:b].copy() with a fresh index, distance re-based on the
\* distance at the start point, and the columns seconds and ride
trimmed(track, a, b, start_distance, ride) ==
    LET timestamp == loc(track.timestamp, a, b)
        distance == loc(track.distance, a, b)
    IN  [columns |-> track.columns \cup {"seconds", "ride"},
         position_lat |-> loc(track.position_lat, a, b),
         position_long |-> loc(track.position_long, a, b),
         distance |-> [i \in 1..Len(distance) |-> distance[i] - start_distance],
         timestamp |-> timestamp,
         distance_to_start |-> loc(track.distance_to_start, a, b),
         distance_to_end |-> loc(track.distance_to_end, a, b),
         seconds |-> seconds_of(timestamp),
         ride |-> [i \in 1..Len(timestamp) |-> ride]]

match_segments(start_distance, length) ==
    /\ LET raised == match_segments_raises(tracks)
           start_idx == closest_idx(tracks[1], start_distance)
           end_idx == closest_idx(tracks[1], start_distance + length)
           start_point == point_at(tracks[1], start_idx)
           end_point == point_at(tracks[1], end_idx)
           control == trimmed(tracks[1], start_idx, end_idx, start_point.distance, 0)
           measured == [i \in 1..Len(tracks) |->
                           IF i = 1 THEN tracks[1]
                           ELSE with_distances(tracks[i], start_point, end_point)]
           trimmed_tracks ==
               [i \in 1..Len(tracks) |->
                   IF i = 1 THEN control
                   ELSE LET match_start_idx == idxmin(measured[i].distance_to_start)
                            match_end_idx == idxmin(measured[i].distance_to_end)
                        IN  trimmed(measured[i], match_start_idx, match_end_idx,
                                    point_at(measured[i], match_start_idx).distance,
                                    i - 1)]
       IN  /\ last' = Call("match_segments",
                           [start_distance |-> start_distance, length |-> length],
                           raised)
           /\ tracks' = IF raised = "None" THEN measured ELSE tracks
           /\ match_result' =
                 [raised |-> raised,
                  track |-> missing_track(tracks),
                  returned |-> IF raised = "None" THEN Some(trimmed_tracks) ELSE None]
    /\ UNCHANGED <<activity, cp_user, max_window, ramp_args, cp_points, cp_df,
                   cp_defined_df, cp_defined_dict, ramp_test_df, ramp_test_wko,
                   activity_percent_cp, df_rolling, pc, cp_runs, match_args>>
    /\ UNCHANGED zwo_vars

(***************************************************************************)
(* Specifications.  Every one starts before __init__ runs, with the         *)
(* attributes as lines 78-85 set them.                                      *)
(***************************************************************************)
Attributes ==
    /\ cp_points = <<>>
    /\ cp_df = <<>>
    /\ cp_defined_df = None
    /\ cp_defined_dict = None
    /\ ramp_test_df = None
    /\ ramp_test_wko = None
    /\ activity_percent_cp = None
    /\ df_rolling = None
    /\ pc = "new"
    /\ last = Call("new", NoArgs, "None")
    /\ cp_runs = 0

\* make_zwo_from_ramp has not been called
NoDocument == [returned |-> None, file |-> None]
NoZwo ==
    /\ zwo_args = [workout |-> <<>>, filename |-> None, name |-> "", ftp |-> Some(1)]
    /\ zwo_result = NoDocument

\* match_segments has not been called and has nothing to work on
NoResult == [raised |-> "None", track |-> -1, returned |-> None]
NoTracks ==
    /\ tracks = <<>>
    /\ match_args = [start_distance |-> 0, length |-> 0]
    /\ match_result = NoResult

\* the defaults of ramp_test_activity's parameters (line 220)
DefaultRampArgs == [segment_time |-> 30, test_length |-> 1200, ftp |-> 1]

\* the table of an activity as the caller passes it: no "{s}_mean" column
Table(power) == [power |-> power, mean |-> <<>>]
\* activities of up to MaxLen samples whose power is missing or 0..MaxPower
Activities ==
    UNION {[1..n -> {NaN} \cup {F(p) : p \in 0..MaxPower}] : n \in 0..MaxLen}

(***************************************************************************)
(* SpecCurve: the observed curve.  An object built on an activity alone,    *)
(* then calculate_cp any number of times.                                   *)
(***************************************************************************)
InitCurve ==
    /\ activity \in {Some(Table(a)) : a \in Activities}
    /\ cp_user = None
    /\ ramp_args = DefaultRampArgs
    /\ max_window \in 1..(MaxLen + 1)
    /\ Attributes
    /\ NoTracks
    /\ NoZwo

NextCurve ==
    \/ __init__
    \/ calculate_cp

SpecCurve == InitCurve /\ [][NextCurve]_vars

(***************************************************************************)
(* SpecIntensity: scoring.  An object built on an activity, with or         *)
(* without a profile, then cp_intensity any number of times (which runs     *)
(* calculate_cp itself while cp_points is empty).                           *)
(***************************************************************************)
\* activities whose power is missing, 0 or MaxPower
IntensityActivities ==
    UNION {[1..n -> {NaN, F(0), F(MaxPower)}] : n \in 0..MaxLen}
\* no profile; a profile of two seconds that is zero at the second; a
\* profile of MaxLen + 1 seconds given at both ends
IntensityProfiles ==
    {None,
     Some((1 :> MaxPower) @@ (2 :> 0)),
     Some((1 :> MaxPower) @@ ((MaxLen + 1) :> 1))}

InitIntensity ==
    /\ activity \in {Some(Table(a)) : a \in IntensityActivities}
    /\ cp_user \in IntensityProfiles
    /\ ramp_args = DefaultRampArgs
    /\ max_window \in {1, MaxLen + 1}
    /\ Attributes
    /\ NoTracks
    /\ NoZwo

NextIntensity ==
    \/ __init__
    \/ \E cp_activity \in BOOLEAN, length \in 1..(MaxLen + 1) :
          cp_intensity(cp_activity, length)

SpecIntensity == InitIntensity /\ [][NextIntensity]_vars

(***************************************************************************)
(* SpecTable: the activity table.  An object built on an activity, with or  *)
(* without a profile, then calculate_cp and cp_intensity in any order.      *)
(***************************************************************************)
NextTable ==
    \/ __init__
    \/ calculate_cp
    \/ \E cp_activity \in BOOLEAN, length \in 1..(MaxLen + 1) :
          cp_intensity(cp_activity, length)

SpecTable == InitIntensity /\ [][NextTable]_vars

(***************************************************************************)
(* SpecRamp: the user profile.  An object built on a profile alone, then    *)
(* ramp_test_activity with the arguments its caller has chosen.             *)
(***************************************************************************)
\* profiles given at some of the durations 1, 2 and MaxDuration, with
\* powers of -1, 0 and the two largest up to MaxProfilePower watts
ProfileDurations == {1, 2, MaxDuration}
ProfilePowers == {-1, 0, MaxProfilePower - 1, MaxProfilePower}
RampProfiles ==
    UNION {[K -> ProfilePowers] : K \in SUBSET ProfileDurations}
SegmentTimes == {1, 2, MaxDuration}
TestLengths == {1, ramp_rows + 1, MaxDuration - 1, MaxDuration, MaxDuration + 1}

InitRamp ==
    /\ activity = None
    /\ cp_user \in {Some(p) : p \in RampProfiles}
    /\ max_window = 1
    /\ ramp_args \in [segment_time : SegmentTimes, test_length : TestLengths,
                      ftp : 0..MaxFtp]
    /\ Attributes
    /\ NoTracks
    /\ NoZwo

NextRamp ==
    \/ __init__
    \/ ramp_test_activity(ramp_args.segment_time, ramp_args.test_length,
                          ramp_args.ftp)

SpecRamp == InitRamp /\ [][NextRamp]_vars

(***************************************************************************)
(* SpecSegments: match_segments on a list of tracks, with the arguments its *)
(* caller has chosen, any number of times.  The CriticalPower object plays  *)
(* no part.                                                                 *)
(***************************************************************************)
RECURSIVE odometer(_, _)
\* the distance column of a ride through the longitudes lons: the length of
\* the path ridden so far, acc being the column of the rows done
odometer(lons, acc) ==
    IF Len(acc) = Len(lons) THEN acc
    ELSE IF acc = <<>> THEN odometer(lons, <<0>>)
    ELSE odometer(lons, Append(acc, acc[Len(acc)] +
                      Abs(lons[Len(acc) + 1] - lons[Len(acc)])))
\* the frame of a ride through lons, recorded once a second, without the
\* columns of `lacking`
Track(lons, lacking) ==
    LET has(col, values) == IF col \in lacking THEN <<>> ELSE values
    IN  [columns |-> required_columns \ lacking,
         position_lat |-> has(LAT_COL, [i \in 1..Len(lons) |-> 0]),
         position_long |-> has(LON_COL, lons),
         distance |-> has(DIST_COL, odometer(lons, <<>>)),
         timestamp |-> has(TIME_COL, [i \in 1..Len(lons) |-> FirstTimestamp + i - 1]),
         distance_to_start |-> <<>>,
         distance_to_end |-> <<>>]
Rides == UNION {[1..n -> 0..MaxLon] : n \in 1..MaxRows}
\* every ride with all its columns, and a one-row ride without distance or
\* without position_lat and timestamp
Lacking == {{DIST_COL}, {LAT_COL, TIME_COL}}
Tracks ==
    {Track(lons, {}) : lons \in Rides} \cup
    {Track(<<0>>, lacking) : lacking \in Lacking}
\* no track, a control track alone, or a control and a comparison track
TrackLists == {<<>>} \cup {<<t>> : t \in Tracks} \cup {<<t, u>> : t, u \in Tracks}
StartDistances == 0..MaxRows
Lengths == -1..(MaxRows - 1)

InitSegments ==
    /\ activity = None
    /\ cp_user = None
    /\ max_window = 1
    /\ ramp_args = DefaultRampArgs
    /\ Attributes
    /\ tracks \in TrackLists
    /\ match_args \in [start_distance : StartDistances, length : Lengths]
    /\ match_result = NoResult
    /\ NoZwo

NextSegments == match_segments(match_args.start_distance, match_args.length)

SpecSegments == InitSegments /\ [][NextSegments]_vars

(***************************************************************************)
(* SpecZwo: an object built without data, then make_zwo_from_ramp on a      *)
(* workout frame with the arguments its caller has chosen.                  *)
(***************************************************************************)
\* workouts of up to MaxSegments rows, numbered from 1, each of 1 or 2
\* seconds at none or half of ftp
WorkoutRows ==
    [duration : {1, 2}, power_ftp : {F(0), Float(1, 2)}]
Workouts ==
    UNION {{[k \in 1..n |->
                [segment |-> k, duration |-> w[k].duration,
                 power |-> w[k].power_ftp, power_ftp |-> w[k].power_ftp]] :
             w \in [1..n -> WorkoutRows]} : n \in 0..MaxSegments}
Filenames == {None, Some("ramp.zwo")}
Ftps == {None} \cup {Some(f) : f \in 0..MaxFtp}

InitZwo ==
    /\ activity = None
    /\ cp_user = None
    /\ max_window = 1
    /\ ramp_args = DefaultRampArgs
    /\ Attributes
    /\ NoTracks
    /\ zwo_args \in [workout : Workouts, filename : Filenames, name : {"test"},
                     ftp : Ftps]
    /\ zwo_result = NoDocument

NextZwo ==
    \/ __init__
    \/ make_zwo_from_ramp(zwo_args.workout, zwo_args.filename, zwo_args.name,
                          zwo_args.ftp)

SpecZwo == InitZwo /\ [][NextZwo]_vars

(***************************************************************************)
(* SpecWorkout: ramp_test_activity on a profile, then make_zwo_from_ramp on *)
(* the workout it leaves in ramp_test_wko, each with the ftp its caller has *)
(* chosen.                                                                  *)
(***************************************************************************)
InitWorkout ==
    /\ activity = None
    /\ cp_user \in {Some(p) : p \in RampProfiles}
    /\ max_window = 1
    /\ ramp_args \in [segment_time : {2}, test_length : {ramp_rows + 1, MaxDuration},
                      ftp : 0..MaxFtp]
    /\ Attributes
    /\ NoTracks
    /\ zwo_args \in [filename : {None}, name : {"test"}, ftp : Ftps]
    /\ zwo_result = NoDocument

NextWorkout ==
    \/ __init__
    \/ ramp_test_activity(ramp_args.segment_time, ramp_args.test_length,
                          ramp_args.ftp)
    \/ /\ ramp_test_wko # None
       /\ make_zwo_from_ramp(Val(ramp_test_wko), zwo_args.filename, zwo_args.name,
                             zwo_args.ftp)

SpecWorkout == InitWorkout /\ [][NextWorkout]_vars

(***************************************************************************)
(* Properties of the observed curve (SpecCurve)                             *)
(***************************************************************************)
Returned(op) == last.op = op /\ last.raised = "None"
Power == Val(activity).power
\* the 1-based starts of the windows of d samples none of which is missing
FullWindows(power, d) ==
    {j \in 1..(Len(power) - d + 1) : \A k \in j..(j + d - 1) : ~isnull(power[k])}
WindowMean(power, j, d) == mean(SubSeq(power, j, j + d - 1))

\* C1: after calculate_cp, for every duration d in 1..min(max_window,
\* number of samples) that has a window of d samples with no missing power,
\* a cp is stored for d, it is >= the mean power of every such window, and
\* it is the mean power of one of them.
C1_CpIsMaximalWindowMean ==
    Returned("calculate_cp") =>
        \A d \in 1..Min(max_window, Len(Power)) :
            FullWindows(Power, d) # {} =>
                /\ d \in DOMAIN cp_points
                /\ \A j \in FullWindows(Power, d) :
                      FLe(WindowMean(Power, j, d), cp_points[d].cp)
                /\ \E j \in FullWindows(Power, d) :
                      cp_points[d].cp = WindowMean(Power, j, d)
\* calculate_cp has run on an activity in which some duration d >= 2 has
\* windows of different mean power, the best of them not the last one
C1_Witness ==
    /\ Returned("calculate_cp")
    /\ \E d \in DOMAIN cp_points :
          /\ d >= 2
          /\ cp_points[d].idx < Len(Power) - 1
          /\ \E j \in FullWindows(Power, d) :
                FLt(WindowMean(Power, j, d), cp_points[d].cp)

SevenFields(r) == <<r.seconds, r.idx, r.cp, r.std, r.max, r.min, r.slope>>
\* C4: a calculate_cp call that directly follows a calculate_cp call leaves
\* the set of durations, the seven fields of every CPPoint and cp_df as the
\* first call left them (a NaN std counts as the same NaN).
C4_SecondCallChangesNothing ==
    [][(Returned("calculate_cp") /\ calculate_cp) =>
          /\ DOMAIN cp_points' = DOMAIN cp_points
          /\ \A s \in DOMAIN cp_points :
                SevenFields(cp_points'[s]) = SevenFields(cp_points[s])
          /\ cp_df' = cp_df]_vars
\* calculate_cp has been called twice in a row and holds several durations
C4_Witness ==
    /\ Returned("calculate_cp")
    /\ cp_runs = 2
    /\ Len(cp_df) >= 2

Seconds(df) == [i \in 1..Len(df) |-> df[i].seconds]
\* C5: no CPPoint and no cp_df row has a duration above the number of
\* samples; after calculate_cp on a series with no missing power, the
\* durations of cp_points and the rows of cp_df are exactly
\* 1..min(max_window, number of samples).
C5_NoPointBeyondTheSeries ==
    /\ \A s \in DOMAIN cp_points : s <= Len(Power)
    /\ \A i \in 1..Len(cp_df) : cp_df[i].seconds <= Len(Power)
    /\ (Returned("calculate_cp") /\ NotNull(Power) = 1..Len(Power)) =>
          /\ DOMAIN cp_points = 1..Min(max_window, Len(Power))
          /\ Seconds(cp_df) = range(1, Min(max_window, Len(Power)) + 1)
\* calculate_cp has run with max_window above the length of a series of at
\* least two samples, none missing
C5_Witness ==
    /\ Returned("calculate_cp")
    /\ NotNull(Power) = 1..Len(Power)
    /\ Len(Power) >= 2
    /\ max_window > Len(Power)

(***************************************************************************)
(* Properties of cp_intensity (SpecIntensity)                               *)
(***************************************************************************)
\* C6: when cp_intensity returns for an activity with fewer samples than
\* its horizon `length`, the score it returns is no finite number.
C6_ShortActivityScoreUndefined ==
    (Returned("cp_intensity") /\ Len(Power) < last.args.length) =>
        ~IsFinite(Val(activity_percent_cp))

\* the curve has no entry, or a zero, for some duration of 1..horizon
CurveLacks(curve, horizon) ==
    \E d \in 1..horizon : d \notin DOMAIN curve \/ curve[d] = F(0)
\* C7: a cp_intensity call whose curve (cp_points when cp_activity, else
\* the user profile) has a missing entry or a zero for some duration of
\* 1..length raises an error and leaves activity_percent_cp and df_rolling
\* as they were.
C7_DefectiveCurveRaises ==
    [][(/\ last'.op = "cp_intensity"
        /\ CurveLacks(curve_of(cp_points', cp_defined_dict',
                               last'.args.cp_activity),
                      last'.args.length)) =>
          /\ last'.raised # "None"
          /\ activity_percent_cp' = activity_percent_cp
          /\ df_rolling' = df_rolling]_vars

(***************************************************************************)
(* Properties of the user profile and of ramp_test_activity (SpecRamp)      *)
(***************************************************************************)
Profile == Val(cp_user)
LargestKey(p) == CHOOSE k \in DOMAIN p : \A j \in DOMAIN p : j <= k
NonNegative(p) == \A d \in DOMAIN p : p[d] >= 0
\* the given durations nearest to second d, below and above it
Below(p, d) ==
    CHOOSE j \in DOMAIN p : j < d /\ \A k \in DOMAIN p : k < d => k <= j
Above(p, d) ==
    CHOOSE j \in DOMAIN p : j > d /\ \A k \in DOMAIN p : k > d => j <= k
\* v lies at second d on the straight line through the two nearest given
\* durations: (v - p[lo]) * (hi - lo) = (p[hi] - p[lo]) * (d - lo)
OnTheLine(p, d, v) ==
    LET lo == Below(p, d)
        hi == Above(p, d)
    IN  FMul(FSub(v, F(p[lo])), F(hi - lo)) = FMul(F(p[hi] - p[lo]), F(d - lo))

\* C2: for a profile with duration 1 and only non-negative powers, the
\* curve built at construction has one row per integer second from 1 to
\* the largest key, the given power at every given duration, and at every
\* other second the value on the straight line between the two nearest
\* given durations.
C2_CurveIsLinearInterpolation ==
    (pc = "ready" /\ cp_user # None /\ NonNegative(Profile)) =>
        LET df == Val(cp_defined_df)
            top == LargestKey(Profile)
        IN  /\ df.seconds = range(1, top + 1)
            /\ Len(df.power) = top
            /\ \A d \in 1..top :
                  IF d \in DOMAIN Profile THEN df.power[d] = F(Profile[d])
                  ELSE OnTheLine(Profile, d, df.power[d])
\* a curve was built from a profile given at 1 and MaxDuration seconds
\* only, with different powers
C2_Witness ==
    /\ pc = "ready"
    /\ cp_user # None
    /\ DOMAIN Profile = {1, MaxDuration}
    /\ NonNegative(Profile)
    /\ Profile[1] # Profile[MaxDuration]
    /\ Len(Val(cp_defined_df).power) = MaxDuration

\* C3: once construction from a profile is over, a profile without
\* duration 1, or with a negative power at any duration, has made it fail
\* and has left no interpolated curve.
C3_InvalidProfileRejected ==
    (/\ pc # "new"
     /\ cp_user # None
     /\ (1 \notin DOMAIN Profile \/ ~NonNegative(Profile))) =>
        /\ pc = "failed"
        /\ cp_defined_df = None

\* C8: a ramp_test_activity call on a profile whose largest duration is
\* below test_length, or with ftp not above 0, raises an error and leaves
\* ramp_test_df and ramp_test_wko as they were.
C8_BadRampArgumentsRaise ==
    [][(/\ last'.op = "ramp_test_activity"
        /\ cp_user # None
        /\ (\/ LargestKey(Profile) < last'.args.test_length
            \/ last'.args.ftp <= 0)) =>
          /\ last'.raised # "None"
          /\ ramp_test_df' = ramp_test_df
          /\ ramp_test_wko' = ramp_test_wko]_vars

\* C9: when ramp_test_activity returns for a profile of non-negative powers
\* and a segment_time >= 1, every segment of the workout has power >= 0.
C9_SegmentPowerNonNegative ==
    (/\ Returned("ramp_test_activity")
     /\ NonNegative(Profile)
     /\ last.args.segment_time >= 1) =>
        \A k \in 1..Len(Val(ramp_test_wko)) :
            FLe(F(0), Val(ramp_test_wko)[k].power)

Durations(wko) == [k \in 1..Len(wko) |-> F(wko[k].duration)]
\* C10: when ramp_test_activity returns, the durations of the segments of
\* the workout sum to test_length.
C10_DurationsSumToTestLength ==
    Returned("ramp_test_activity") =>
        sum(Durations(Val(ramp_test_wko))) = F(last.args.test_length)
\* a workout over the whole of a MaxDuration-second profile in segments of
\* 2 seconds: after the one-second bins it has a segment of one row and a
\* segment of two
C10_Witness ==
    /\ Returned("ramp_test_activity")
    /\ last.args.segment_time = 2
    /\ last.args.test_length = MaxDuration
    /\ \E i \in 1..Len(Val(ramp_test_df).bins) :
          /\ Val(ramp_test_df).bins[i] > ramp_rows
          /\ Val(ramp_test_df).bin_time[i] = 1
    /\ \E k \in 1..Len(Val(ramp_test_wko)) : Val(ramp_test_wko)[k].duration = 2

\* the distinct bins of a frame, and the place of each among them when
\* they are counted from the largest down
Bins(df) == {df.bins[i] : i \in 1..Len(df.bins)}
RankFromLargest(bins) ==
    [b \in bins |-> Cardinality({c \in bins : c > b}) + 1]
\* C11: the workout has one row per distinct bin of the frame; the row of
\* the k-th largest bin is row k, is numbered k and carries the duration
\* and the powers of that bin, so the rows are in strictly descending bin
\* order, segment 1 is the largest bin and the last segment is the bin of
\* second 1.
C11_OneRowPerBinDescending ==
    Returned("ramp_test_activity") =>
        LET df == Val(ramp_test_df)
            wko == Val(ramp_test_wko)
            rank == RankFromLargest(Bins(df))
        IN  /\ Len(wko) = Cardinality(DOMAIN rank)
            /\ \A k \in 1..Len(wko) : wko[k].segment = k
            /\ \A i \in 1..Len(df.bins) :
                  LET row == wko[rank[df.bins[i]]]
                  IN  /\ row.duration = df.bin_time[i]
                      /\ row.power = df.bin_power[i]
                      /\ row.power_ftp = df.bin_power_per_ftp[i]
            /\ rank[df.bins[1]] = Len(wko)
\* a workout of several segments whose first and last differ in duration
\* and in power
C11_Witness ==
    /\ Returned("ramp_test_activity")
    /\ Len(Val(ramp_test_wko)) > ramp_rows
    /\ Val(ramp_test_wko)[1].duration > 1
    /\ Val(ramp_test_wko)[Len(Val(ramp_test_wko))].duration = 1
    /\ Val(ramp_test_wko)[1].power # Val(ramp_test_wko)[Len(Val(ramp_test_wko))].power

\* the profile's power never increases with duration
NonIncreasing(p) == \A a, b \in DOMAIN p : a < b => p[a] >= p[b]
SegmentPowers(wko) == [k \in 1..Len(wko) |-> wko[k].power]
\* the power of the interpolated curve at second d
CurvePower(d) == Val(cp_defined_df).power[d]
\* C12 as stated: for a profile of non-negative powers whose power never
\* increases with duration, the largest segment power of the workout is the
\* profile's power at 1 second and the smallest segment power is the
\* profile's power at test_length.
C12_SegmentPowersSpanProfile ==
    (/\ Returned("ramp_test_activity")
     /\ NonNegative(Profile)
     /\ NonIncreasing(Profile)) =>
        /\ max(SegmentPowers(Val(ramp_test_wko))) = F(Profile[1])
        /\ min(SegmentPowers(Val(ramp_test_wko))) = CurvePower(last.args.test_length)
\* C12 amended: for a profile whose power never increases with duration,
\* the largest segment power of the workout is the profile's power at 1
\* second, and the smallest value of the power column of the frame
\* ramp_test_df is the profile's power at test_length.
C12_MaxSegmentAndMinFramePower ==
    (Returned("ramp_test_activity") /\ NonIncreasing(Profile)) =>
        /\ max(SegmentPowers(Val(ramp_test_wko))) = F(Profile[1])
        /\ min(Val(ramp_test_df).power) = CurvePower(last.args.test_length)
\* a workout from a profile that falls from 1 second to MaxDuration
\* seconds, with a segment whose power is below every power of the profile
C12_Witness ==
    /\ Returned("ramp_test_activity")
    /\ NonIncreasing(Profile)
    /\ NonNegative(Profile)
    /\ MaxDuration \in DOMAIN Profile
    /\ Profile[1] > Profile[MaxDuration]
    /\ last.args.test_length = MaxDuration
    /\ FLt(min(SegmentPowers(Val(ramp_test_wko))), CurvePower(MaxDuration))

\* the sum of the ramp power of the seconds 1..k of the frame
RampSum(k) == sum(SubSeq(Val(ramp_test_df).ramp_power, 1, k))
\* C22: when ramp_test_activity returns for a profile of non-negative
\* powers, for every second k of the frame the ramp power of the seconds
\* 1..k sums to k times the interpolated power at k, and that sum is not
\* changed by the clip to non-negative.
C22_RampSumIsSecondsTimesPower ==
    (Returned("ramp_test_activity") /\ NonNegative(Profile)) =>
        LET df == Val(ramp_test_df)
        IN  /\ Len(df.ramp_power) = last.args.test_length
            /\ \A k \in 1..Len(df.ramp_power) :
                  /\ RampSum(k) = FMul(F(k), df.power[k])
                  /\ FLe(F(0), RampSum(k))
\* ramp_test_activity has returned a frame of more than 30 seconds for a
\* profile of non-negative powers that falls from its first duration to its
\* last, and the ramp power of some second is negative
C22_Witness ==
    /\ Returned("ramp_test_activity")
    /\ NonNegative(Profile)
    /\ Profile[1] > Profile[LargestKey(Profile)]
    /\ Len(Val(ramp_test_df).ramp_power) > 30
    /\ \E k \in 1..Len(Val(ramp_test_df).ramp_power) :
          FLt(Val(ramp_test_df).ramp_power[k], F(0))

(***************************************************************************)
(* Properties of match_segments (SpecSegments)                              *)
(***************************************************************************)
Matched == Val(match_result.returned)
\* C13: every track match_segments returns, here for a length that is not
\* negative, has at least one row, and the smallest value of its re-based
\* distance column and of its seconds column is 0.
C13_OutputStartsAtZero ==
    (Returned("match_segments") /\ last.args.length >= 0) =>
        \A i \in 1..Len(Matched) :
            /\ Len(Matched[i].distance) >= 1
            /\ int_min(Matched[i].distance) = 0
            /\ int_min(Matched[i].seconds) = 0

\* track i (from 0) of the list lacks one of the four required columns
Lacks(ts, i) ==
    ~({"position_lat", "position_long", "distance", "timestamp"}
          \subseteq ts[i + 1].columns)
\* C14: a match_segments call on a list in which some track lacks one of
\* position_lat, position_long, distance and timestamp raises an error that
\* names the index of the first such track, returns nothing and leaves
\* every track of the list as it was.
C14_MissingColumnsRaiseFirst ==
    [][(/\ last'.op = "match_segments"
        /\ \E i \in 0..(Len(tracks) - 1) : Lacks(tracks, i)) =>
          /\ match_result'.raised = "ValueError"
          /\ match_result'.returned = None
          /\ Lacks(tracks, match_result'.track)
          /\ \A j \in 0..(match_result'.track - 1) : ~Lacks(tracks, j)
          /\ tracks' = tracks]_vars
\* match_segments has failed on a list of two tracks that both lack a
\* column
C14_Witness ==
    /\ last.op = "match_segments"
    /\ match_result.raised = "ValueError"
    /\ Len(tracks) = 2
    /\ Lacks(tracks, 0)
    /\ Lacks(tracks, 1)
    /\ match_result.track = 0

\* two frames hold the same ride: the same four required columns
SameRide(t, u) ==
    /\ t.position_lat = u.position_lat
    /\ t.position_long = u.position_long
    /\ t.distance = u.distance
    /\ t.timestamp = u.timestamp
MaxDistance(t) ==
    CHOOSE v \in {t.distance[i] : i \in 1..Len(t.distance)} :
        \A j \in 1..Len(t.distance) : t.distance[j] <= v
\* C15: when every comparison track is a copy of the control track, here
\* for a length that is not negative, every returned segment has rows and
\* its largest re-based distance is within 1 of that of the control
\* segment.
C15_CopiesSpanTheSameDistance ==
    (/\ Returned("match_segments")
     /\ last.args.length >= 0
     /\ \A i \in 1..Len(tracks) : SameRide(tracks[i], tracks[1])) =>
        \A i \in 1..Len(Matched) :
            /\ Len(Matched[i].distance) >= 1
            /\ Abs(MaxDistance(Matched[i]) - MaxDistance(Matched[1])) <= 1

\* the first row (from 1) of a column of whole numbers that holds its
\* smallest value
FirstMin(x) ==
    CHOOSE i \in 1..Len(x) :
        /\ \A j \in 1..Len(x) : x[i] <= x[j]
        /\ \A j \in 1..(i - 1) : x[j] # x[i]
\* the row (from 1) of the control track whose distance is nearest to d
ControlRow(d) ==
    FirstMin([j \in 1..Len(tracks[1].distance) |-> Abs(tracks[1].distance[j] - d)])
\* the row (from 1) of track t nearest to row r of the control track
NearestRow(t, r) ==
    FirstMin([j \in 1..Len(t.position_long) |->
                 haversine_distance(tracks[1].position_lat[r], tracks[1].position_long[r],
                                    t.position_lat[j], t.position_long[j])])
\* out is rows a..b of src with distance and time shifted by a constant and
\* the ride number `ride`
RunOf(out, src, a, b, ride) ==
    LET n == IF b >= a THEN b - a + 1 ELSE 0
    IN  /\ Len(out.distance) = n
        /\ Len(out.position_lat) = n
        /\ Len(out.position_long) = n
        /\ Len(out.timestamp) = n
        /\ Len(out.seconds) = n
        /\ Len(out.ride) = n
        /\ \A k \in 1..n :
              /\ out.position_lat[k] = src.position_lat[a + k - 1]
              /\ out.position_long[k] = src.position_long[a + k - 1]
              /\ out.timestamp[k] = src.timestamp[a + k - 1]
              /\ out.ride[k] = ride
              /\ \A l \in 1..n :
                    /\ out.distance[k] - out.distance[l] =
                           src.distance[a + k - 1] - src.distance[a + l - 1]
                    /\ out.seconds[k] - out.seconds[l] =
                           src.timestamp[a + k - 1] - src.timestamp[a + l - 1]
\* C21: when match_segments returns, the control output is the run of rows
\* of the control track from the first row nearest in distance to
\* start_distance to the first row nearest to start_distance + length, every
\* other output is the run of rows of its track from the first row nearest
\* (great circle) to the control's start point to the first row nearest to
\* the control's end point, with distance and seconds shifted by a constant
\* and ride the position of the track in the list.
C21_NearestPointLowestIndex ==
    Returned("match_segments") =>
        LET start == ControlRow(last.args.start_distance)
            end == ControlRow(last.args.start_distance + last.args.length)
        IN  /\ Len(Matched) = Len(tracks)
            /\ RunOf(Matched[1], tracks[1], start, end, 0)
            /\ \A i \in 2..Len(tracks) :
                  RunOf(Matched[i], tracks[i], NearestRow(tracks[i], start),
                        NearestRow(tracks[i], end), i - 1)
\* match_segments has returned two segments with rows where the control
\* track has two rows as near to start_distance as each other and the other
\* track has two rows as near to the control's start point as each other
C21_Witness ==
    /\ Returned("match_segments")
    /\ Len(tracks) = 2
    /\ Len(Matched[1].distance) >= 2
    /\ Len(Matched[2].distance) >= 2
    /\ \E j, k \in 1..Len(tracks[1].distance) :
          /\ j # k
          /\ j = ControlRow(last.args.start_distance)
          /\ Abs(tracks[1].distance[j] - last.args.start_distance) =
                 Abs(tracks[1].distance[k] - last.args.start_distance)
    /\ \E j, k \in 1..Len(tracks[2].distance) :
          /\ j # k
          /\ j = NearestRow(tracks[2], ControlRow(last.args.start_distance))
          /\ tracks[2].distance_to_start[j] = tracks[2].distance_to_start[k]

\* C25: a match_segments call leaves every track of the list it is given
\* with the columns and the values it had before the call, and the tracks
\* it returns all have the same set of columns.
C25_InputTracksUnchanged ==
    [][last'.op = "match_segments" =>
          /\ tracks' = tracks
          /\ match_result'.returned # None =>
                \A i, j \in 1..Len(Val(match_result'.returned)) :
                    Val(match_result'.returned)[i].columns =
                        Val(match_result'.returned)[j].columns]_vars

(***************************************************************************)
(* Properties of make_zwo_from_ramp (SpecZwo)                               *)
(***************************************************************************)
Document == Val(zwo_result.returned)
\* the positions of the lines of a document with a given text
LinesWith(doc, text) == {i \in 1..Len(doc) : doc[i].text = text}
SteadyStateText == "      <SteadyState Duration=\"{}\" Power=\"{}\"/>"
FtpOverrideText == "  <ftpOverride>{}</ftpOverride>"
\* the document starts with the declaration, ends with the closing
\* workout_file tag, and its SteadyState elements are those of the rows of
\* the workout, in row order
WellFormed(doc, workout) ==
    /\ doc[1].text = "<?xml version='1.0' encoding='UTF-8'?>"
    /\ doc[Len(doc)].text = "</workout_file>"
    /\ Cardinality(LinesWith(doc, SteadyStateText)) = Len(workout)
    /\ \A k \in 1..Len(workout) :
          \E i \in LinesWith(doc, SteadyStateText) :
              /\ Cardinality({j \in LinesWith(doc, SteadyStateText) : j < i}) = k - 1
              /\ doc[i].values = <<workout[k].duration, workout[k].power_ftp>>
\* C16 as stated: the document is well formed and has an ftpOverride
\* element exactly when an ftp value is given (ftp is not None).
C16_FtpOverrideWhenGiven ==
    Returned("make_zwo_from_ramp") =>
        /\ WellFormed(Document, zwo_args.workout)
        /\ (LinesWith(Document, FtpOverrideText) # {}) <=> (zwo_args.ftp # None)
\* C16 amended: the document is well formed and has an ftpOverride element,
\* holding ftp, exactly when ftp is given and is not 0.
C16_FtpOverrideWhenNotZero ==
    Returned("make_zwo_from_ramp") =>
        /\ WellFormed(Document, zwo_args.workout)
        /\ Cardinality(LinesWith(Document, FtpOverrideText)) <= 1
        /\ \A i \in LinesWith(Document, FtpOverrideText) :
              Document[i].values = <<Val(zwo_args.ftp)>>
        /\ (LinesWith(Document, FtpOverrideText) # {}) <=>
              (zwo_args.ftp # None /\ zwo_args.ftp # Some(0))
\* a document was made with ftp = 0 from a workout of several different
\* rows
C16_Witness ==
    /\ Returned("make_zwo_from_ramp")
    /\ zwo_args.ftp = Some(0)
    /\ Len(zwo_args.workout) >= 2
    /\ zwo_args.workout[1].duration # zwo_args.workout[2].duration
    /\ zwo_args.workout[1].power_ftp # zwo_args.workout[2].power_ftp

(***************************************************************************)
(* Further properties of calculate_cp (SpecCurve)                           *)
(***************************************************************************)
\* the end labels (from 0) of the windows of s samples none of which is
\* missing, and the mean power of the window that ends at label j
FullEnds(power, s) == {j + s - 2 : j \in FullWindows(power, s)}
MeanEndingAt(power, j, s) == WindowMean(power, j - s + 2, s)
\* C17: for every duration s of cp_points, idx is the smallest end label
\* whose trailing s-sample mean power is the largest of all end labels;
\* window is the s samples at labels idx-s+1..idx; cp, max and min are the
\* mean, the largest and the smallest power of those s samples.
C17_EarliestBestWindow ==
    \A s \in DOMAIN cp_points :
        LET p == cp_points[s]
            ends == FullEnds(Power, s)
        IN  /\ p.idx \in ends
            /\ \A j \in ends :
                  /\ FLe(MeanEndingAt(Power, j, s), MeanEndingAt(Power, p.idx, s))
                  /\ j < p.idx =>
                        MeanEndingAt(Power, j, s) # MeanEndingAt(Power, p.idx, s)
            /\ Len(p.window) = s
            /\ \A k \in 1..s : p.window[k] = Power[p.idx - s + 1 + k]
            /\ p.cp = MeanEndingAt(Power, p.idx, s)
            /\ \E k \in 1..s : p.max = p.window[k]
            /\ \A k \in 1..s : FLe(p.window[k], p.max)
            /\ \E k \in 1..s : p.min = p.window[k]
            /\ \A k \in 1..s : FLe(p.min, p.window[k])
\* calculate_cp has found, for a duration of at least 2, two windows of the
\* same largest mean power that hold different samples
C17_Witness ==
    /\ Returned("calculate_cp")
    /\ \E s \in DOMAIN cp_points :
          /\ s >= 2
          /\ \E j \in FullEnds(Power, s) :
                /\ j > cp_points[s].idx
                /\ MeanEndingAt(Power, j, s) = cp_points[s].cp
                /\ SubSeq(Power, j - s + 2, j + 1) # cp_points[s].window

\* C18: for every duration s >= 2 of cp_points, slope is the mean power of
\* the last s - s//2 samples of the window minus the mean power of its
\* first s//2 samples, so that no sample is in both means.
C18_SlopeOfDisjointHalves ==
    \A s \in DOMAIN cp_points :
        s >= 2 =>
            cp_points[s].slope =
                FSub(mean(SubSeq(cp_points[s].window, s \div 2 + 1, s)),
                     mean(SubSeq(cp_points[s].window, 1, s \div 2)))

\* no sample of the activity is missing and none is negative
NonNegativePower == \A i \in 1..Len(Power) : FLe(F(0), Power[i])
\* C24 as stated: for a series of non-negative power and every pair of
\* consecutive durations s and s+1 of the observed curve, cp(s+1) <= cp(s).
C24_CurveNeverIncreases ==
    (Returned("calculate_cp") /\ NonNegativePower) =>
        \A s \in DOMAIN cp_points :
            (s + 1) \in DOMAIN cp_points =>
                FLe(cp_points[s + 1].cp, cp_points[s].cp)
\* C24 as amended: for every pair of consecutive durations s and s+1 of the
\* observed curve, (s+1) * cp(s+1) <= s * cp(s) + cp(1), and no cp is above
\* cp(1).
C24_CurveBoundedByShorterDurations ==
    Returned("calculate_cp") =>
        \A s \in DOMAIN cp_points :
            /\ FLe(cp_points[s].cp, cp_points[1].cp)
            /\ (s + 1) \in DOMAIN cp_points =>
                  FLe(FMul(F(s + 1), cp_points[s + 1].cp),
                      FAdd(FMul(F(s), cp_points[s].cp), cp_points[1].cp))
\* calculate_cp has found, on a series of non-negative power, a larger cp
\* for 3 seconds than for 2
C24_Witness ==
    /\ Returned("calculate_cp")
    /\ NonNegativePower
    /\ 3 \in DOMAIN cp_points
    /\ FLt(cp_points[2].cp, cp_points[3].cp)

(***************************************************************************)
(* Further properties of cp_intensity (SpecIntensity)                       *)
(***************************************************************************)
\* the sum of the values of the percent columns at row i that are defined
PercentSum(pct, i) ==
    LET ds == sorted(DOMAIN pct)
    IN  sum([k \in 1..Len(ds) |-> pct[ds[k]][i]])
\* C19: when cp_intensity returns for an activity with no missing power,
\* the percent of duration d at row i (rows from 1) is the mean power of
\* the d samples that end at row i divided by curve[d], and is undefined at
\* the rows i < d, which have fewer than d samples; percent_total_cp at row
\* i is the sum of the percents of the row divided by length; the score is
\* the mean of percent_total_cp.
C19_PercentOfFullWindows ==
    (Returned("cp_intensity") /\ NotNull(Power) = 1..Len(Power)) =>
        LET pct == Val(df_rolling).percent_cp
            total == Val(df_rolling).percent_total_cp
            curve == curve_of(cp_points, cp_defined_dict, last.args.cp_activity)
        IN  /\ \A d \in DOMAIN pct : \A i \in 1..Len(Power) :
                  IF i >= d
                  THEN pct[d][i] = FDiv(WindowMean(Power, i - d + 1, d), curve[d])
                  ELSE isnull(pct[d][i])
            /\ \A i \in 1..Len(Power) :
                  total[i] = FDiv(PercentSum(pct, i), F(last.args.length))
            /\ Val(activity_percent_cp) = mean(total)

C27_PowerTimesFtpOverrideIsWatts ==
    (/\ Returned("make_zwo_from_ramp")
     /\ ramp_test_wko # None
     /\ NonNegative(Profile)
     /\ ramp_args.ftp >= 1
     /\ LinesWith(Document, FtpOverrideText) # {}) =>
        LET wko == Val(ramp_test_wko)
            steady == sorted(LinesWith(Document, SteadyStateText))
        IN  /\ Len(steady) = Len(wko)
            /\ \A i \in LinesWith(Document, FtpOverrideText) :
                  \A k \in 1..Len(wko) :
                      FMul(Document[steady[k]].values[2], F(Document[i].values[1]))
                          = wko[k].power

(***************************************************************************)
(* Further properties of ramp_test_activity (SpecRamp)                      *)
\* x is undefined or at most 1
AtMostOne(x) == isnull(x) \/ FLe(x, F(1))
\* C23: when cp_intensity returns for an activity of non-negative power
\* scored on its own curve (cp_activity=True), every percent of every
\* duration that is defined is at most 1 at every row, and so are
\* percent_total_cp at every row and the score.
C23_OwnCurvePercentAtMostOne ==
    (/\ Returned("cp_intensity")
     /\ last.args.cp_activity
     /\ \A i \in 1..Len(Power) : FLe(F(0), Power[i])) =>
        LET pct == Val(df_rolling).percent_cp
            total == Val(df_rolling).percent_total_cp
        IN  /\ \A d \in DOMAIN pct : \A i \in 1..Len(pct[d]) : AtMostOne(pct[d][i])
            /\ \A i \in 1..Len(total) : AtMostOne(total[i])
            /\ AtMostOne(Val(activity_percent_cp))

(***************************************************************************)
\* the rows (from 1, row i being second i) of the frame that share the bin
\* of row i
RowsOfBinOf(df, i) == {j \in 1..Len(df.bins) : df.bins[j] = df.bins[i]}
\* C20: when ramp_test_activity returns for a segment_time >= 1, each of
\* the seconds 1 to 30 is alone in its bin; second 31 is in none of their
\* bins; every bin of a second after the first 30, other than the last bin
\* of the frame, holds exactly segment_time seconds; and the bins never
\* decrease as the seconds increase.
C20_BinsOfSegmentTime ==
    (Returned("ramp_test_activity") /\ last.args.segment_time >= 1) =>
        LET df == Val(ramp_test_df)
            n == Len(df.bins)
        IN  /\ \A i \in 1..Min(30, n) : RowsOfBinOf(df, i) = {i}
            /\ \A i \in 31..n :
                  df.bins[i] # df.bins[n] =>
                      Cardinality(RowsOfBinOf(df, i)) = last.args.segment_time
            /\ \A i \in 1..(n - 1) : df.bins[i] <= df.bins[i + 1]

====
